---- MODULE Spec2Model ----
(***************************************************************************)
(* A model of darq's application object (src/darq/app.py): construction,   *)
(* the connection lifecycle (connect / disconnect), task declaration with  *)
(* its delay entry point, the job wrapper with its hooks, and cron binding.*)
(* Coroutines are cut at their awaits: one action per run-to-await piece.  *)
(***************************************************************************)
EXTENDS Integers, Sequences, FiniteSets, TLC

\* ------------------------------------------------------------------ bounds
MaxPools == 2       \* connections arq.create_pool may hand out
MaxDecls == 2       \* declarations (@task applications) per function
NumEntries == 2     \* CronJob objects that exist
MaxBind == 2        \* entries passed to one add_cron_jobs call
NumProcs == 2       \* callers (asyncio tasks) that may hold a call in flight

\* --------------------------------------------------------------- constants
TD_1_DAY == 86400   \* datetime.timedelta(days=1), in seconds
NoHandle == 0       \* self.redis = None

\* ------------------------------------------------------------------ values
Procs == 1..NumProcs
Funcs == {"f", "g"}                   \* user functions (original coroutines)
ExplicitHandles == {1}                \* ArqRedis objects owned by the caller
FirstPool == Cardinality(ExplicitHandles)
PoolHandles == (FirstPool + 1)..(FirstPool + MaxPools)
Handles == ExplicitHandles \cup PoolHandles

\* An optional integer (None or a number of seconds).
NoneInt == [has |-> FALSE, val |-> 0]
Some(n) == [has |-> TRUE, val |-> n]
\* An optional string; NoneStr is Python's None, AbsentStr a missing key.
NoneStr == "<None>"
AbsentStr == "<absent>"
\* A metadata mapping is a set of <<key, value>> pairs; {} is the empty dict.
EmptyMeta == {}
MetaA == {<<"trace_id", "abc">>}
MetaB == {<<"trace_id", "xyz">>}
AbsentMeta == [has |-> FALSE, val |-> EmptyMeta]
SomeMeta(m) == [has |-> TRUE, val |-> m]

\* Python truthiness of the values the code tests with "if v" / "v or d".
TruthyInt(e) == e.has /\ e.val # 0
TruthyStr(s) == s \notin {NoneStr, ""}
TruthyHandle(h) == h # NoHandle

\* Keyword arguments of a task call: the user's own argument x and the three
\* reserved keys; a field that is absent is not in the dict.
NoKwargs ==
  [x |-> NoneInt, _queue_name |-> AbsentStr, _expires |-> NoneInt,
   __metadata__ |-> AbsentMeta]
CallerKwargs ==
  [x : {NoneInt, Some(1)}, _queue_name : {AbsentStr, "other"},
   _expires : {NoneInt, Some(7)}, __metadata__ : {AbsentMeta, SomeMeta(MetaB)}]

\* A coroutine reference: an original function, or the wrapper that the
\* n-th declaration of that function produced.
Orig(f) == [fn |-> f, wrapped |-> FALSE, decl |-> 0]
Wrapped(f, n) == [fn |-> f, wrapped |-> TRUE, decl |-> n]

\* CronJob objects are 1..NumEntries; 0 is an argument that is no CronJob.
Entries == 1..NumEntries
NotCronJob == 0
EntryFunc(e) == IF e % 2 = 1 THEN "f" ELSE "g"

VARIABLES
  phase,            \* "new" (not constructed), "ready", "failed" (ctor raised)
  config,           \* the configuration mapping passed to the constructor
  on_job_prerun, on_job_postrun, on_job_prepublish,   \* hook configured?
  redis,            \* self.redis
  connected,        \* self.connected
  closed,           \* handles on which close() has been called
  created,          \* connections arq.create_pool has returned so far
  by_original_coro, \* self.registry.by_original_coro
  delay_of,         \* function.delay: the closure of the latest declaration
  decls,            \* declarations made so far, per function
  cron_jobs,        \* self.config['cron_jobs']
  coroutine,        \* job.coroutine of every CronJob object
  pc,               \* where each caller's call is suspended
  frame,            \* the locals of each caller's call
  done,             \* record of the call that completed last
  before            \* short record of the call that completed before it

vars ==
  <<phase, config, on_job_prerun, on_job_postrun, on_job_prepublish, redis,
    connected, closed, created, by_original_coro, delay_of, decls, cron_jobs,
    coroutine, pc, frame, done, before>>

appVars == <<phase, config, on_job_prerun, on_job_postrun, on_job_prepublish>>
connVars == <<redis, connected, closed, created>>
regVars == <<by_original_coro, delay_of, decls>>
cronVars == <<cron_jobs, coroutine>>

\* ----------------------------------------------------------- bookkeeping
IdleFrame ==
  [op |-> "none", f |-> "-", arg |-> NoHandle, pre_connected |-> FALSE,
   pre_redis |-> NoHandle, kwargs |-> NoKwargs, metadata |-> EmptyMeta,
   ctx_metadata |-> EmptyMeta, produced |-> AbsentMeta, log |-> <<>>,
   seen |-> <<>>, handle |-> NoHandle, on_closed |-> FALSE,
   given |-> NoKwargs]

NoCall ==
  [op |-> "none", f |-> "-", arg |-> NoHandle, pre_connected |-> FALSE,
   pre_redis |-> NoHandle, kwargs |-> NoKwargs, metadata |-> EmptyMeta,
   ctx_metadata |-> EmptyMeta, produced |-> AbsentMeta, log |-> <<>>,
   seen |-> <<>>, handle |-> NoHandle, on_closed |-> FALSE,
   given |-> NoKwargs, res |-> "none", jobs |-> <<>>, pre_cron |-> <<>>,
   pre_unregistered |-> FALSE]

Count(log, e) == Cardinality({i \in DOMAIN log : log[i] = e})

\* What is remembered of the call before the last one: for a connect or a
\* disconnect, how it went; for any other call, only that it was another call.
Short(d) ==
  IF d.op \in {"connect", "disconnect"}
  THEN [op |-> d.op, explicit |-> d.arg # NoHandle,
        pre_connected |-> d.pre_connected, res |-> d.res,
        est |-> Count(d.log, "pool_created"), cls |-> Count(d.log, "close")]
  ELSE [op |-> "other", explicit |-> FALSE, pre_connected |-> FALSE,
        res |-> "none", est |-> 0, cls |-> 0]

\* The record of a call that ends with result r, from its frame fr.
Finished(fr, r) ==
  [op |-> fr.op, f |-> fr.f, arg |-> fr.arg,
   pre_connected |-> fr.pre_connected, pre_redis |-> fr.pre_redis,
   kwargs |-> fr.kwargs, metadata |-> fr.metadata,
   ctx_metadata |-> fr.ctx_metadata, produced |-> fr.produced,
   log |-> fr.log, seen |-> fr.seen, handle |-> fr.handle,
   on_closed |-> fr.on_closed, given |-> fr.given, res |-> r, jobs |-> <<>>,
   pre_cron |-> <<>>, pre_unregistered |-> FALSE]

\* A frame for a call op that starts now.
Enter(op, f, h) ==
  [IdleFrame EXCEPT !.op = op, !.f = f, !.arg = h,
                    !.pre_connected = connected, !.pre_redis = redis]

Idle == \A p \in Procs : pc[p] = "idle"

\* Caller p's call returns (or raises) r.
Return(p, fr, r) ==
  /\ pc' = [pc EXCEPT ![p] = "idle"]
  /\ frame' = [frame EXCEPT ![p] = IdleFrame]
  /\ done' = Finished(fr, r)
  /\ before' = Short(done)

\* Caller p's call suspends at an await.
Suspend(p, fr, at) ==
  /\ pc' = [pc EXCEPT ![p] = at]
  /\ frame' = [frame EXCEPT ![p] = fr]
  /\ UNCHANGED <<done, before>>

\* ------------------------------------------------------------- registry
\* Registry.add: the descriptor becomes the value stored under the original
\* function; an earlier descriptor under the same function is overwritten.
RegistryAdd(reg, orig, arq_function) ==
  [k \in DOMAIN reg \cup {orig} |->
     IF k = orig THEN arq_function ELSE reg[k]]

\* get_function_name: a name derived from the function alone.
get_function_name(f) == f

\* ----------------------------------------------------------- cron binding
\* Faulty variant: a bound entry is put at the front of the cron list.
RECURSIVE BindFrom_prepend(_, _, _, _, _)
BindFrom_prepend(jobs, i, reg, cron, coro) ==
  IF i > Len(jobs)
  THEN [res |-> "ok", cron_jobs |-> cron, coroutine |-> coro]
  ELSE LET job == jobs[i] IN
    IF job = NotCronJob
    THEN [res |-> "DarqException: must be instance of CronJob",
          cron_jobs |-> cron, coroutine |-> coro]
    ELSE IF coro[job] \notin DOMAIN reg
    THEN [res |-> "DarqException: is not registered",
          cron_jobs |-> cron, coroutine |-> coro]
    ELSE BindFrom_prepend(jobs, i + 1, reg, <<job>> \o cron,
                          [coro EXCEPT ![job] = reg[coro[job]].coroutine])

\* Faulty variant: an entry is appended with the function it came with.
RECURSIVE BindFrom_keeps_original(_, _, _, _, _)
BindFrom_keeps_original(jobs, i, reg, cron, coro) ==
  IF i > Len(jobs)
  THEN [res |-> "ok", cron_jobs |-> cron, coroutine |-> coro]
  ELSE LET job == jobs[i] IN
    IF job = NotCronJob
    THEN [res |-> "DarqException: must be instance of CronJob",
          cron_jobs |-> cron, coroutine |-> coro]
    ELSE IF coro[job] \notin DOMAIN reg
    THEN [res |-> "DarqException: is not registered",
          cron_jobs |-> cron, coroutine |-> coro]
    ELSE BindFrom_keeps_original(jobs, i + 1, reg, Append(cron, job), coro)

\* The loop of add_cron_jobs from its i-th argument on: it stops at the first
\* argument it rejects and keeps what the earlier iterations did.
RECURSIVE BindFrom(_, _, _, _, _)
BindFrom(jobs, i, reg, cron, coro) ==
  IF i > Len(jobs)
  THEN [res |-> "ok", cron_jobs |-> cron, coroutine |-> coro]
  ELSE LET job == jobs[i] IN
    IF job = NotCronJob
    THEN [res |-> "DarqException: must be instance of CronJob",
          cron_jobs |-> cron, coroutine |-> coro]
    ELSE IF coro[job] \notin DOMAIN reg
    THEN [res |-> "DarqException: is not registered",
          cron_jobs |-> cron, coroutine |-> coro]
    ELSE BindFrom(jobs, i + 1, reg, Append(cron, job),
                  [coro EXCEPT ![job] = reg[coro[job]].coroutine])

\* Sequences of at most n arguments for one add_cron_jobs call.
JobLists(n) == UNION {[1..k -> Entries \cup {NotCronJob}] : k \in 0..n}

\* Does some CronJob among jobs reference a function that reg does not hold?
Unregistered(jobs, reg) ==
  \E i \in DOMAIN jobs :
    jobs[i] # NotCronJob /\ coroutine[jobs[i]] \notin DOMAIN reg

\* The record of a synchronous call op that ends with result r; reg is the
\* registry the call started with.
SyncDone(op, f, jobs, reg, r) ==
  [NoCall EXCEPT !.op = op, !.f = f, !.res = r, !.jobs = jobs,
                 !.pre_cron = cron_jobs, !.pre_connected = connected,
                 !.pre_redis = redis,
                 !.pre_unregistered = Unregistered(jobs, reg)]

\* add_cron_jobs(*jobs)
add_cron_jobs(jobs) ==
  /\ phase = "ready"
  /\ LET b == BindFrom(jobs, 1, by_original_coro, cron_jobs, coroutine) IN
       /\ cron_jobs' = b.cron_jobs
       /\ coroutine' = b.coroutine
       /\ done' = SyncDone("add_cron_jobs", "-", jobs, by_original_coro, b.res)
  /\ before' = Short(done)
  /\ UNCHANGED <<appVars, connVars, regVars, pc, frame>>

\* ----------------------------------------------------------- construction
Configs ==
  [redis_pool : {NoHandle} \cup ExplicitHandles, functions : BOOLEAN,
   queue_name : BOOLEAN, has_cron_jobs : BOOLEAN, cron_jobs : JobLists(MaxBind)]

\* The result of Darq.__init__ up to and including its add_cron_jobs call;
\* the registry it binds against is the one it has just created.
InitCron(cfg) ==
  IF cfg.functions \/ cfg.queue_name
  THEN [res |-> "DarqConfigError", cron_jobs |-> <<>>,
        coroutine |-> coroutine]
  ELSE BindFrom(IF cfg.has_cron_jobs THEN cfg.cron_jobs ELSE <<>>, 1,
                <<>>, <<>>, coroutine)

\* Faulty variant: the application always starts disconnected.
init_disconnected(h) == FALSE

\* "self.connected = bool(self.redis)"
init_connected(h) == TruthyHandle(h)

\* Darq.__init__(config, on_job_prerun, on_job_postrun, on_job_prepublish)
DarqInit(cfg, prerun, postrun, prepublish) ==
  /\ phase = "new"
  /\ ~cfg.has_cron_jobs => cfg.cron_jobs = <<>>
  /\ config' = cfg
  /\ on_job_prerun' = prerun
  /\ on_job_postrun' = postrun
  /\ on_job_prepublish' = prepublish
  /\ by_original_coro' = <<>>
  /\ LET b == InitCron(cfg) IN
       /\ cron_jobs' = b.cron_jobs
       /\ coroutine' = b.coroutine
       /\ phase' = IF b.res = "ok" THEN "ready" ELSE "failed"
       /\ done' = SyncDone("__init__", "-", cfg.cron_jobs, <<>>, b.res)
       /\ IF b.res = "ok"
          THEN /\ redis' = IF TruthyHandle(cfg.redis_pool)
                           THEN cfg.redis_pool ELSE NoHandle
               /\ connected' = init_connected(redis')
          ELSE UNCHANGED <<redis, connected>>
  /\ before' = Short(done)
  /\ UNCHANGED <<closed, created, delay_of, decls, pc, frame>>

\* ------------------------------------------------------------ connection
\* Faulty variant: connect returns early only when no handle is passed.
connect_replaces_handle == connected /\ redis = NoHandle

\* "if self.connected: return"
connect_is_noop == connected

\* Darq.connect(redis_pool) up to its await (or to its return).
connect(p, redis_pool) ==
  /\ phase = "ready"
  /\ pc[p] = "idle"
  /\ LET fr == Enter("connect", "-", redis_pool) IN
       IF connect_is_noop
       THEN /\ Return(p, fr, "ok")
            /\ UNCHANGED connVars
       ELSE IF TruthyHandle(redis_pool)
       THEN /\ redis' = redis_pool
            /\ connected' = TRUE
            /\ Return(p, fr, "ok")
            /\ UNCHANGED <<closed, created>>
       ELSE /\ created + Cardinality({q \in Procs : pc[q] = "create_pool"})
                 < MaxPools
            /\ Suspend(p, [fr EXCEPT !.log = Append(@, "create_pool")],
                       "create_pool")
            /\ UNCHANGED connVars
  /\ UNCHANGED <<appVars, regVars, cronVars>>

\* Faulty variant: a connection that arrives when the application is already
\* connected is dropped and the held handle kept.
connect_resume_keeps_held(p) ==
  /\ pc[p] = "create_pool"
  /\ created' = created + 1
  /\ redis' = IF connected THEN redis ELSE FirstPool + created + 1
  /\ connected' = TRUE
  /\ Return(p, [frame[p] EXCEPT !.log = Append(@, "pool_created")], "ok")
  /\ UNCHANGED <<appVars, closed, regVars, cronVars>>

\* arq.create_pool returns a new connection: connect resumes and returns.
connect_resume(p) ==
  /\ pc[p] = "create_pool"
  /\ created' = created + 1
  /\ redis' = FirstPool + created + 1
  /\ connected' = TRUE
  /\ Return(p, [frame[p] EXCEPT !.log = Append(@, "pool_created")], "ok")
  /\ UNCHANGED <<appVars, closed, regVars, cronVars>>

\* arq.create_pool raises: connect propagates it.
connect_raise(p) ==
  /\ pc[p] = "create_pool"
  /\ Return(p, frame[p], "ConnectionError")
  /\ UNCHANGED <<appVars, connVars, regVars, cronVars>>

\* Faulty variant: disconnect returns early only when no handle is set.
disconnect_checks_handle_only == ~TruthyHandle(redis)

\* "if not self.connected: return"
disconnect_is_noop == ~connected

\* Darq.disconnect() up to its await (or to its return).
disconnect(p) ==
  /\ phase = "ready"
  /\ pc[p] = "idle"
  /\ LET fr == Enter("disconnect", "-", NoHandle) IN
       IF disconnect_is_noop
       THEN /\ Return(p, fr, "ok")
            /\ UNCHANGED connVars
       ELSE IF TruthyHandle(redis)
       THEN /\ closed' = closed \cup {redis}
            /\ Suspend(p, [fr EXCEPT !.log = Append(@, "close")],
                       "wait_closed")
            /\ UNCHANGED <<redis, connected, created>>
       ELSE /\ connected' = FALSE
            /\ Return(p, fr, "ok")
            /\ UNCHANGED <<redis, closed, created>>
  /\ UNCHANGED <<appVars, regVars, cronVars>>

\* redis.wait_closed() returns: disconnect resumes and returns.
disconnect_resume(p) ==
  /\ pc[p] = "wait_closed"
  /\ connected' = FALSE
  /\ Return(p, [frame[p] EXCEPT !.log = Append(@, "wait_closed")], "ok")
  /\ UNCHANGED <<appVars, redis, closed, created, regVars, cronVars>>

\* ------------------------------------------------------------ declaration
default_job_expires == TD_1_DAY

NoDelay ==
  [declared |-> FALSE, name |-> "-", queue |-> NoneStr, expires |-> NoneInt]

\* Faulty variant: the descriptor carries the function itself, not wrapped.
arq_func_unwrapped(f, n, keep_result, timeout, max_tries) ==
  [name |-> get_function_name(f), coroutine |-> Orig(f),
   keep_result |-> keep_result, timeout |-> timeout, max_tries |-> max_tries]

\* arq.worker.func(coroutine=self.wrap_job_coroutine(function), name=name,
\* ...): the descriptor of the n-th declaration of f, with its own wrapper.
arq_func(f, n, keep_result, timeout, max_tries) ==
  [name |-> get_function_name(f), coroutine |-> Wrapped(f, n),
   keep_result |-> keep_result, timeout |-> timeout, max_tries |-> max_tries]

\* Darq.task(...)(function): the decorator applied to function f.
task(f, keep_result, timeout, max_tries, queue, expires) ==
  /\ phase = "ready"
  /\ decls[f] < MaxDecls
  /\ LET name == get_function_name(f)
         arq_function ==
           arq_func(f, decls[f] + 1, keep_result, timeout, max_tries)
     IN /\ by_original_coro' =
             RegistryAdd(by_original_coro, Orig(f), arq_function)
        /\ delay_of' = [delay_of EXCEPT ![f] =
             [declared |-> TRUE, name |-> name, queue |-> queue,
              expires |-> expires]]
  /\ decls' = [decls EXCEPT ![f] = @ + 1]
  /\ done' = SyncDone("task", f, <<>>, by_original_coro, "ok")
  /\ before' = Short(done)
  /\ UNCHANGED <<appVars, connVars, cronVars, pc, frame>>

\* ------------------------------------------------------------------ delay
\* Faulty variant: the declared queue replaces the caller's queue.
InjectDefaults_override(kw, queue, expires) ==
  LET kw1 == IF TruthyStr(queue)
             THEN [kw EXCEPT !._queue_name = queue] ELSE kw
  IN IF ~kw1._expires.has
     THEN [kw1 EXCEPT !._expires =
             IF TruthyInt(expires) THEN expires
             ELSE Some(default_job_expires)]
     ELSE kw1

\* The defaults delay injects into the caller's keyword arguments.
InjectDefaults(kw, queue, expires) ==
  LET kw1 == IF TruthyStr(queue) /\ kw._queue_name = AbsentStr
             THEN [kw EXCEPT !._queue_name = queue] ELSE kw
  IN IF ~kw1._expires.has
     THEN [kw1 EXCEPT !._expires =
             IF TruthyInt(expires) THEN expires
             ELSE Some(default_job_expires)]
     ELSE kw1

\* Faulty variant: the metadata is attached only when the key is not there.
AttachMetadata_setdefault(kw, metadata) ==
  IF metadata # EmptyMeta /\ ~kw.__metadata__.has
  THEN [kw EXCEPT !.__metadata__ = SomeMeta(metadata)] ELSE kw

\* Faulty variant: the metadata is attached even when it is empty.
AttachMetadata_always(kw, metadata) ==
  [kw EXCEPT !.__metadata__ = SomeMeta(metadata)]

\* "if metadata: kwargs['__metadata__'] = metadata"
AttachMetadata(kw, metadata) ==
  IF metadata # EmptyMeta
  THEN [kw EXCEPT !.__metadata__ = SomeMeta(metadata)] ELSE kw

\* self.redis.enqueue_job(name, **kw) is called from the frame fr: the
\* frame remembers the arguments, the handle and whether it was closed.
Forward(fr, kw) ==
  [fr EXCEPT !.kwargs = kw, !.handle = redis, !.on_closed = redis \in closed,
             !.log = Append(@, "enqueue_job")]

\* Faulty variant: delay tests only that a handle is set.
delay_checks_handle_only == ~TruthyHandle(redis)

\* "if not self.connected or not self.redis"
delay_not_connected == ~connected \/ ~TruthyHandle(redis)

\* function.delay(**kwargs) up to its first await (or to its raise).
delay(p, f, kwargs) ==
  /\ phase = "ready"
  /\ pc[p] = "idle"
  /\ delay_of[f].declared
  /\ LET d == delay_of[f]
         kw == InjectDefaults(kwargs, d.queue, d.expires)
         fr == [Enter("delay", f, NoHandle) EXCEPT !.kwargs = kw,
                                                   !.given = kwargs]
     IN IF delay_not_connected
        THEN Return(p, fr, "DarqConnectionError")
        ELSE IF on_job_prepublish
        THEN Suspend(p, [fr EXCEPT !.log = Append(@, "prepublish")],
                     "prepublish")
        ELSE Suspend(p, Forward(fr, AttachMetadata(kw, EmptyMeta)),
                     "enqueue_job")
  /\ UNCHANGED <<appVars, connVars, regVars, cronVars>>

\* The pre-publish hook returns, having left m in the metadata mapping:
\* delay resumes, attaches the metadata and calls enqueue_job.
delay_prepublish_done(p, m) ==
  /\ pc[p] = "prepublish"
  /\ LET fr == [frame[p] EXCEPT !.metadata = m, !.produced = SomeMeta(m),
                                !.log = Append(@, "prepublish_done")]
     IN Suspend(p, Forward(fr, AttachMetadata(fr.kwargs, m)), "enqueue_job")
  /\ UNCHANGED <<appVars, connVars, regVars, cronVars>>

\* The pre-publish hook raises: delay propagates it.
delay_prepublish_raise(p) ==
  /\ pc[p] = "prepublish"
  /\ Return(p, [frame[p] EXCEPT !.log = Append(@, "prepublish_raised")],
            "PrePublishError")
  /\ UNCHANGED <<appVars, connVars, regVars, cronVars>>

\* enqueue_job returns the engine's answer r: delay returns it.
delay_return(p, r) ==
  /\ pc[p] = "enqueue_job"
  /\ Return(p, frame[p], r)
  /\ UNCHANGED <<appVars, connVars, regVars, cronVars>>

\* The call that the last delay forwarded to enqueue_job, if it did.
Enqueued == done.op = "delay" /\ Count(done.log, "enqueue_job") > 0

\* ---------------------------------------------------------------- wrapper
\* What a hook or the function body is called with.
Observed(who, fr) ==
  [who |-> who, kwargs |-> fr.kwargs, metadata |-> fr.ctx_metadata]

StartBody(fr) ==
  [fr EXCEPT !.log = Append(@, "body_start"),
             !.seen = Append(@, Observed("body", fr))]

\* Faulty variant: the metadata is read and the key left in place.
get_metadata(kwargs) == kwargs

\* The keyword arguments left by "kwargs.pop('__metadata__', {})".
pop_metadata(kwargs) == [kwargs EXCEPT !.__metadata__ = AbsentMeta]

\* Faulty variant: the function is called without the pre-run hook.
run_body_first(p, fr) == Suspend(p, StartBody(fr), "body")

\* "if self.on_job_prerun: await self.on_job_prerun(...)", then the function.
run_prerun(p, fr) ==
  IF on_job_prerun
  THEN Suspend(p, [fr EXCEPT !.log = Append(@, "prerun_start"),
                             !.seen = Append(@, Observed("prerun", fr))],
               "prerun")
  ELSE Suspend(p, StartBody(fr), "body")

\* wrapper(ctx, **kwargs) of function f up to its first await; produced is
\* the mapping the pre-publish hook left for this job, if it came from delay.
wrapper(p, f, kwargs, produced) ==
  /\ phase = "ready"
  /\ pc[p] = "idle"
  /\ Orig(f) \in DOMAIN by_original_coro
  /\ LET fr0 == Enter("wrapper", f, NoHandle)
         fr == [fr0 EXCEPT
                  !.ctx_metadata = IF kwargs.__metadata__.has
                                   THEN kwargs.__metadata__.val
                                   ELSE EmptyMeta,
                  !.kwargs = pop_metadata(kwargs),
                  !.produced = produced, !.given = kwargs,
                  !.log = <<"metadata">>]
     IN run_prerun(p, fr)
  /\ UNCHANGED <<appVars, connVars, regVars, cronVars>>

\* The pre-run hook returns: the wrapper calls the function.
wrapper_prerun_done(p) ==
  /\ pc[p] = "prerun"
  /\ Suspend(p, StartBody([frame[p] EXCEPT !.log = Append(@, "prerun_done")]),
             "body")
  /\ UNCHANGED <<appVars, connVars, regVars, cronVars>>

\* Faulty variant: a failure of the pre-run hook is swallowed.
wrapper_prerun_raise_swallowed(p) ==
  /\ pc[p] = "prerun"
  /\ Suspend(p, StartBody([frame[p] EXCEPT
                             !.log = Append(@, "prerun_raised")]), "body")
  /\ UNCHANGED <<appVars, connVars, regVars, cronVars>>

\* The pre-run hook raises: the wrapper propagates it.
wrapper_prerun_raise(p) ==
  /\ pc[p] = "prerun"
  /\ Return(p, [frame[p] EXCEPT !.log = Append(@, "prerun_raised")],
            "PreRunError")
  /\ UNCHANGED <<appVars, connVars, regVars, cronVars>>

\* The function returns its result: the wrapper calls the post-run hook, or
\* returns the result when none is configured.
wrapper_body_done(p) ==
  /\ pc[p] = "body"
  /\ LET fr == [frame[p] EXCEPT !.log = Append(@, "body_done")] IN
       IF on_job_postrun
       THEN Suspend(p, [fr EXCEPT !.log = Append(@, "postrun_start"),
                                  !.seen = Append(@, Observed("postrun", fr))],
                    "postrun")
       ELSE Return(p, [fr EXCEPT !.log = Append(@, "return")], "result")
  /\ UNCHANGED <<appVars, connVars, regVars, cronVars>>

\* Faulty variant: the post-run hook runs although the function raised.
wrapper_body_raise_finally(p) ==
  /\ pc[p] = "body"
  /\ LET fr == [frame[p] EXCEPT !.log = Append(@, "body_raised")] IN
       IF on_job_postrun
       THEN Suspend(p, [fr EXCEPT !.log = Append(@, "postrun_start"),
                                  !.seen = Append(@, Observed("postrun", fr))],
                    "postrun")
       ELSE Return(p, fr, "BodyError")
  /\ UNCHANGED <<appVars, connVars, regVars, cronVars>>

\* The function raises: the wrapper propagates it.
wrapper_body_raise(p) ==
  /\ pc[p] = "body"
  /\ Return(p, [frame[p] EXCEPT !.log = Append(@, "body_raised")],
            "BodyError")
  /\ UNCHANGED <<appVars, connVars, regVars, cronVars>>

\* The post-run hook returns: the wrapper returns the function's result.
wrapper_postrun_done(p) ==
  /\ pc[p] = "postrun"
  /\ Return(p, [frame[p] EXCEPT !.log = @ \o <<"postrun_done", "return">>],
            "result")
  /\ UNCHANGED <<appVars, connVars, regVars, cronVars>>

\* The post-run hook raises: the wrapper propagates it.
wrapper_postrun_raise(p) ==
  /\ pc[p] = "postrun"
  /\ Return(p, [frame[p] EXCEPT !.log = Append(@, "postrun_raised")],
            "PostRunError")
  /\ UNCHANGED <<appVars, connVars, regVars, cronVars>>

\* ----------------------------------------------------------- specification
Init ==
  /\ phase = "new"
  /\ config = [redis_pool |-> NoHandle, functions |-> FALSE,
               queue_name |-> FALSE, has_cron_jobs |-> FALSE,
               cron_jobs |-> <<>>]
  /\ on_job_prerun = FALSE
  /\ on_job_postrun = FALSE
  /\ on_job_prepublish = FALSE
  /\ redis = NoHandle
  /\ connected = FALSE
  /\ closed = {}
  /\ created = 0
  /\ by_original_coro = <<>>
  /\ delay_of = [f \in Funcs |-> NoDelay]
  /\ decls = [f \in Funcs |-> 0]
  /\ cron_jobs = <<>>
  /\ coroutine = [e \in Entries |-> Orig(EntryFunc(e))]
  /\ pc = [p \in Procs |-> "idle"]
  /\ frame = [p \in Procs |-> IdleFrame]
  /\ done = NoCall
  /\ before = Short(NoCall)

Queues == {NoneStr, "math"}
Expiries == {NoneInt, Some(0), Some(5)}
Tries == {NoneInt, Some(3)}
HookMetas == {EmptyMeta, MetaA}
DirectKwargs ==
  [x : {NoneInt, Some(1)}, _queue_name : {AbsentStr}, _expires : {NoneInt},
   __metadata__ : {AbsentMeta, SomeMeta(MetaA)}]
NoCron == {cfg \in Configs : ~cfg.has_cron_jobs /\ ~cfg.functions
                              /\ ~cfg.queue_name}
Caller == {1}

\* The connection lifecycle: calls are made one after the other by one
\* caller, a call starting when none is in flight.
NextConn ==
  \/ \E cfg \in NoCron, prepublish \in BOOLEAN :
       DarqInit(cfg, FALSE, FALSE, prepublish)
  \/ \E queue \in Queues :
       Idle /\ task("f", NoneInt, NoneInt, NoneInt, queue, NoneInt)
  \/ \E p \in Caller, h \in {NoHandle} \cup ExplicitHandles :
       Idle /\ connect(p, h)
  \/ \E p \in Caller : connect_resume(p)
  \/ \E p \in Caller : connect_raise(p)
  \/ \E p \in Caller : Idle /\ disconnect(p)
  \/ \E p \in Caller : disconnect_resume(p)
  \/ \E p \in Caller, kwargs \in {NoKwargs, [NoKwargs EXCEPT !.x = Some(1)]} :
       Idle /\ delay(p, "f", kwargs)
  \/ \E p \in Caller, m \in HookMetas : delay_prepublish_done(p, m)
  \/ \E p \in Caller : delay_prepublish_raise(p)
  \/ \E p \in Caller, r \in {"Job", "None"} : delay_return(p, r)

SpecConn == Init /\ [][NextConn]_vars

\* Publishing and running jobs: the application is constructed connected,
\* one caller enqueues, the engine runs the wrapper.
NextJob ==
  \/ \E cfg \in NoCron, prerun, postrun, prepublish \in BOOLEAN :
       cfg.redis_pool # NoHandle /\ DarqInit(cfg, prerun, postrun, prepublish)
  \/ \E queue \in Queues, expires \in Expiries :
       Idle /\ task("f", NoneInt, NoneInt, NoneInt, queue, expires)
  \/ \E p \in Caller, kwargs \in CallerKwargs : Idle /\ delay(p, "f", kwargs)
  \/ \E p \in Caller, m \in HookMetas : delay_prepublish_done(p, m)
  \/ \E p \in Caller : delay_prepublish_raise(p)
  \/ \E p \in Caller, r \in {"Job", "None"} : delay_return(p, r)
  \/ \E p \in Caller :
       Idle /\ Enqueued /\ wrapper(p, done.f, done.kwargs, done.produced)
  \/ \E p \in Caller, kwargs \in DirectKwargs :
       Idle /\ wrapper(p, "f", kwargs, AbsentMeta)
  \/ \E p \in Caller : wrapper_prerun_done(p)
  \/ \E p \in Caller : wrapper_prerun_raise(p)
  \/ \E p \in Caller : wrapper_body_done(p)
  \/ \E p \in Caller : wrapper_body_raise(p)
  \/ \E p \in Caller : wrapper_postrun_done(p)
  \/ \E p \in Caller : wrapper_postrun_raise(p)

SpecJob == Init /\ [][NextJob]_vars

\* Construction, declaration and cron binding.
NextCron ==
  \/ \E cfg \in Configs : DarqInit(cfg, FALSE, FALSE, FALSE)
  \/ \E f \in Funcs, max_tries \in Tries :
       Idle /\ task(f, NoneInt, NoneInt, max_tries, NoneStr, NoneInt)
  \/ \E jobs \in JobLists(MaxBind) : Idle /\ add_cron_jobs(jobs)

SpecCron == Init /\ [][NextCron]_vars

\* Declaration and cron binding on an application constructed without
\* cron jobs in its configuration.
NextBind ==
  \/ \E cfg \in NoCron :
       /\ cfg.redis_pool = NoHandle /\ cfg.cron_jobs = <<>>
       /\ DarqInit(cfg, FALSE, FALSE, FALSE)
  \/ \E f \in Funcs :
       Idle /\ task(f, NoneInt, NoneInt, NoneInt, NoneStr, NoneInt)
  \/ \E jobs \in JobLists(MaxBind) : Idle /\ add_cron_jobs(jobs)

SpecBind == Init /\ [][NextBind]_vars

\* Overlapping calls: after the declaration phase every caller may start a
\* connect, a disconnect or a delay while the calls of the others are
\* suspended at their awaits.
NextConc ==
  \/ \E cfg \in NoCron, prepublish \in BOOLEAN :
       DarqInit(cfg, FALSE, FALSE, prepublish)
  \/ Idle /\ task("f", NoneInt, NoneInt, NoneInt, NoneStr, NoneInt)
  \/ \E p \in Procs : connect(p, NoHandle)
  \/ \E p \in Procs : connect_resume(p)
  \/ \E p \in Procs : connect_raise(p)
  \/ \E p \in Procs : disconnect(p)
  \/ \E p \in Procs : disconnect_resume(p)
  \/ \E p \in Procs : delay(p, "f", NoKwargs)
  \/ \E p \in Procs, m \in HookMetas : delay_prepublish_done(p, m)
  \/ \E p \in Procs : delay_prepublish_raise(p)
  \/ \E p \in Procs, r \in {"Job", "None"} : delay_return(p, r)

SpecConc == Init /\ [][NextConc]_vars

\* Overlapping calls of the connection lifecycle alone: every caller may
\* start a connect or a disconnect while the others are suspended.
NextOverlap ==
  \/ \E cfg \in NoCron : DarqInit(cfg, FALSE, FALSE, FALSE)
  \/ \E p \in Procs : connect(p, NoHandle)
  \/ \E p \in Procs : connect_resume(p)
  \/ \E p \in Procs : connect_raise(p)
  \/ \E p \in Procs : disconnect(p)
  \/ \E p \in Procs : disconnect_resume(p)

SpecOverlap == Init /\ [][NextOverlap]_vars

\* The whole application: every call of the parts above.
Next == NextConn \/ NextJob \/ NextCron \/ NextBind \/ NextConc \/ NextOverlap

Spec == Init /\ [][Next]_vars

\* ================================================================= claims
InFlight(op) == {p \in Procs : frame[p].op = op}

\* C1: a delay call made while the application is not connected fails with
\* the connection error, calls neither the pre-publish hook nor enqueue_job,
\* establishes no connection and leaves the application not connected.
C1_DelayNotConnected ==
  /\ \A p \in InFlight("delay") : frame[p].pre_connected
  /\ (done.op = "delay" /\ ~done.pre_connected) =>
       /\ done.res = "DarqConnectionError"
       /\ done.log = <<>>
       /\ ~connected
       /\ redis = done.pre_redis

\* A delay refused after a connect / disconnect round, with a handle still
\* set and a pre-publish hook configured.
C1_Witness ==
  /\ done.op = "delay" /\ ~done.pre_connected
  /\ before.op = "disconnect" /\ before.cls = 1
  /\ redis # NoHandle
  /\ on_job_prepublish

\* C2: between calls, connected is true exactly when the application holds a
\* handle on which close has not been called.
C2_ConnectedIffLive ==
  Idle => (connected <=> (redis # NoHandle /\ redis \notin closed))

\* C3: connect while connected establishes nothing and keeps the handle,
\* whatever handle is passed; two connect() calls in a row from the
\* disconnected state establish exactly one connection.
C3_ConnectIdempotent ==
  /\ \A p \in InFlight("connect") : ~frame[p].pre_connected
  /\ (done.op = "connect" /\ done.pre_connected) =>
       /\ done.res = "ok"
       /\ done.log = <<>>
       /\ connected
       /\ redis = done.pre_redis
  /\ (/\ before.op = "connect" /\ ~before.explicit /\ ~before.pre_connected
      /\ before.res = "ok"
      /\ done.op = "connect" /\ done.arg = NoHandle /\ done.res = "ok") =>
       before.est + Count(done.log, "pool_created") = 1

\* A connect(handle) made right after a connect() that established a
\* connection, with a handle other than the one held.
C3_Witness ==
  /\ before.op = "connect" /\ ~before.explicit /\ before.est = 1
  /\ done.op = "connect" /\ done.pre_connected
  /\ done.arg # NoHandle /\ done.arg # redis

\* C4: disconnect while not connected closes nothing; disconnect while
\* connected closes the held handle and ends disconnected; two disconnect()
\* calls in a row from the connected state perform exactly one close.
C4_DisconnectIdempotent ==
  /\ \A p \in InFlight("disconnect") :
       /\ frame[p].pre_connected
       /\ frame[p].log = <<"close">>
       /\ frame[p].pre_redis \in closed
  /\ (done.op = "disconnect" /\ ~done.pre_connected) => done.log = <<>>
  /\ (done.op = "disconnect" /\ done.pre_connected) =>
       /\ done.log = <<"close", "wait_closed">>
       /\ done.pre_redis \in closed
       /\ ~connected
  /\ (/\ before.op = "disconnect" /\ before.pre_connected
      /\ done.op = "disconnect") =>
       before.cls + Count(done.log, "close") = 1

\* A second disconnect() right after one that closed the handle.
C4_Witness ==
  /\ before.op = "disconnect" /\ before.pre_connected /\ before.cls = 1
  /\ done.op = "disconnect" /\ ~done.pre_connected
  /\ redis # NoHandle

\* The events of a wrapper invocation that runs to its end with both hooks.
FullRun ==
  <<"metadata", "prerun_start", "prerun_done", "body_start", "body_done",
    "postrun_start", "postrun_done", "return">>
Raises == {"prerun_raised", "body_raised", "postrun_raised"}
IsPrefix(s, t) == Len(s) <= Len(t) /\ \A i \in DOMAIN s : s[i] = t[i]
Events(log) == SelectSeq(log, LAMBDA e : e \notin Raises)
Running(log, what) ==
  Count(log, what \o "_start") >
    Count(log, what \o "_done") + Count(log, what \o "_raised")

\* r is a wrapper invocation whose events so far follow the order of FullRun
\* and in which no hook runs while the function runs.
InOrder(r) ==
  r.op = "wrapper" =>
    /\ Len(r.log) > 0
    /\ IsPrefix(Events(r.log), FullRun)
    /\ \A i \in DOMAIN r.log : r.log[i] \in Raises => i = Len(r.log)
    /\ Running(r.log, "body") =>
         ~Running(r.log, "prerun") /\ ~Running(r.log, "postrun")

\* C5: with a pre-run and a post-run hook configured, every wrapper
\* invocation stores the metadata, runs the pre-run hook to its end, then the
\* function to its end, then the post-run hook to its end, then returns the
\* result; no hook runs while the function runs.
C5_HookOrder ==
  (on_job_prerun /\ on_job_postrun) =>
    /\ \A p \in Procs : InOrder(frame[p])
    /\ \A p \in Procs : pc[p] = "body" => Running(frame[p].log, "body")
    /\ InOrder(done)
    /\ (done.op = "wrapper" /\ done.res = "result") => done.log = FullRun

\* A wrapper invocation that returned its result with both hooks configured.
C5_Witness ==
  /\ on_job_prerun /\ on_job_postrun
  /\ done.op = "wrapper" /\ done.res = "result"
  /\ Len(done.seen) = 3

\* C6: when the function raises, the post-run hook is not called and the
\* wrapper invocation ends with the function's error.
C6_BodyFailureSkipsPostrun ==
  /\ \A p \in InFlight("wrapper") : Count(frame[p].log, "body_raised") = 0
  /\ (done.op = "wrapper" /\ Count(done.log, "body_raised") > 0) =>
       /\ done.res = "BodyError"
       /\ Count(done.log, "postrun_start") = 0
       /\ \A i \in DOMAIN done.seen : done.seen[i].who # "postrun"

\* A wrapper invocation whose function raised with a post-run hook configured.
C6_Witness ==
  /\ on_job_postrun
  /\ done.op = "wrapper" /\ Count(done.log, "body_raised") = 1
  /\ done.res = "BodyError"

\* r is a wrapper invocation in which the pre-run and post-run hooks saw the
\* metadata that the pre-publish hook produced for the job, when it produced
\* a non-empty one.
RoundTrip(r) ==
  (r.op = "wrapper" /\ r.produced.has /\ r.produced.val # EmptyMeta) =>
    \A i \in DOMAIN r.seen :
      r.seen[i].who \in {"prerun", "postrun"} =>
        r.seen[i].metadata = r.produced.val

\* C7: the non-empty metadata a pre-publish hook produces in a delay call is
\* the job context's metadata when the pre-run hook and when the post-run
\* hook observe it, once the forwarded arguments reach the wrapper.
C7_MetadataRoundTrip ==
  /\ RoundTrip(done)
  /\ \A p \in Procs : RoundTrip(frame[p])

\* A job delivered from a delay call whose pre-publish hook produced a
\* non-empty mapping, run to its end with both run hooks observing it.
C7_Witness ==
  /\ done.op = "wrapper" /\ done.produced = SomeMeta(MetaA)
  /\ done.given.__metadata__ = SomeMeta(MetaA)
  /\ done.res = "result"
  /\ \E i, j \in DOMAIN done.seen :
       done.seen[i].who = "prerun" /\ done.seen[j].who = "postrun"

\* r is a delay call that forwarded no metadata key, when the caller passed
\* none and the hook is missing or left the mapping empty.
NoMetadataKey(r) ==
  (/\ r.op = "delay" /\ Count(r.log, "enqueue_job") > 0
   /\ ~r.given.__metadata__.has
   /\ (~on_job_prepublish \/ r.metadata = EmptyMeta)) =>
    ~r.kwargs.__metadata__.has

\* C8: a delay call whose caller passes no metadata key forwards none to
\* enqueue_job when no pre-publish hook is configured or the hook leaves the
\* mapping empty.
C8_NoMetadataKey ==
  /\ NoMetadataKey(done)
  /\ \A p \in Procs : NoMetadataKey(frame[p])

\* A delay call forwarded after the configured hook left the mapping empty.
C8_Witness ==
  /\ on_job_prepublish
  /\ done.op = "delay" /\ Count(done.log, "enqueue_job") = 1
  /\ done.produced = SomeMeta(EmptyMeta)
  /\ ~done.given.__metadata__.has

\* C9: an add_cron_jobs call in which some entry references a function that
\* is not registered fails and leaves the cron list as it was.
C9_FailedBindKeepsList ==
  (done.op = "add_cron_jobs" /\ done.pre_unregistered) =>
    /\ done.res # "ok"
    /\ cron_jobs = done.pre_cron

\* C10: constructing the application with a cron_jobs key in an otherwise
\* valid configuration succeeds and leaves those entries in the cron list,
\* each rebound to a wrapper.
C10_ConfigCronJobs ==
  (/\ phase # "new"
   /\ config.has_cron_jobs /\ ~config.functions /\ ~config.queue_name
   /\ \A i \in DOMAIN config.cron_jobs : config.cron_jobs[i] # NotCronJob) =>
    /\ phase = "ready"
    /\ done.op = "__init__" =>
         /\ cron_jobs = config.cron_jobs
         /\ \A i \in DOMAIN cron_jobs : coroutine[cron_jobs[i]].wrapped

\* The delay calls that have called enqueue_job and await its answer.
Forwarding == {p \in Procs : pc[p] = "enqueue_job"}

\* C11: a delay call made while connected forwards the caller's _expires
\* when given; otherwise the task's declared expires, whatever its value (a
\* zero duration too), and the default expiry when the task declared none.
C11_ForwardedExpires ==
  \A p \in Forwarding :
    LET fr == frame[p]
        d == delay_of[fr.f]
    IN fr.kwargs._expires =
         IF fr.given._expires.has THEN fr.given._expires
         ELSE IF d.expires.has THEN d.expires
         ELSE Some(default_job_expires)

C14_HookFailures ==
  /\ \A p \in Procs :
       \A e \in {"prepublish_raised", "prerun_raised", "postrun_raised"} :
         Count(frame[p].log, e) = 0
  /\ Count(done.log, "prepublish_raised") > 0 =>
       /\ done.op = "delay" /\ done.res = "PrePublishError"
       /\ Count(done.log, "enqueue_job") = 0
  /\ Count(done.log, "prerun_raised") > 0 =>
       /\ done.op = "wrapper" /\ done.res = "PreRunError"
       /\ Count(done.log, "body_start") = 0
       /\ Count(done.log, "postrun_start") = 0
       /\ \A i \in DOMAIN done.seen : done.seen[i].who = "prerun"
  /\ Count(done.log, "postrun_raised") > 0 =>
       /\ done.op = "wrapper" /\ done.res = "PostRunError"
       /\ Count(done.log, "return") = 0

\* A wrapper invocation ended by its pre-run hook, with a post-run hook
\* configured.
C14_Witness ==
  /\ on_job_postrun
  /\ done.op = "wrapper" /\ Count(done.log, "prerun_raised") = 1
  /\ done.res = "PreRunError"

\* r is a wrapper invocation whose hooks and function saw no metadata key
\* among the keyword arguments, and an empty metadata when none came in.
Stripped(r) ==
  r.op = "wrapper" =>
    /\ r.log[1] = "metadata"
    /\ Len(r.seen) > 0
    /\ \A i \in DOMAIN r.seen :
         /\ ~r.seen[i].kwargs.__metadata__.has
         /\ ~r.given.__metadata__.has => r.seen[i].metadata = EmptyMeta

\* C17: the wrapper takes the metadata key out of the keyword arguments
\* before anything else runs: the pre-run hook, the function and the post-run
\* hook never see it; without the key the job context's metadata is empty
\* and the invocation goes on.
C17_MetadataStripped ==
  /\ Stripped(done)
  /\ \A p \in Procs : Stripped(frame[p])

\* An invocation that came with the metadata key and ran to its end with
\* both hooks.
C17_Witness ==
  /\ done.op = "wrapper" /\ done.given.__metadata__.has
  /\ done.res = "result" /\ Len(done.seen) = 3

\* C13: an application constructed with a connection handle in its
\* configuration starts connected: as long as nothing has disconnected it, a
\* delay call reaches enqueue_job through that handle and a connect
\* establishes nothing and keeps the handle.
C13_ConstructedConnected ==
  (phase = "ready" /\ config.redis_pool # NoHandle /\ closed = {}) =>
    /\ connected
    /\ redis = config.redis_pool
    /\ created = 0
    /\ \A p \in Procs : pc[p] # "create_pool"
    /\ \A p \in Forwarding :
         frame[p].handle = config.redis_pool /\ ~frame[p].on_closed
    /\ done.op = "delay" =>
         /\ done.res \in {"Job", "None", "PrePublishError"}
         /\ done.res # "PrePublishError" => done.handle = config.redis_pool
    /\ done.op = "connect" => done.res = "ok" /\ done.log = <<>>

\* A connect() that returned on an application constructed with a handle and
\* never disconnected, after a call that was neither connect nor disconnect.
C13_Witness ==
  /\ phase = "ready" /\ config.redis_pool # NoHandle /\ closed = {}
  /\ done.op = "connect" /\ done.arg = NoHandle
  /\ before.op = "other"
  /\ delay_of["f"].declared

\* C18: however a delay call and a disconnect call interleave, enqueue_job
\* is never called on a handle on which close has been called.
C18_NoEnqueueOnClosed ==
  /\ ~done.on_closed
  /\ \A p \in Procs : ~frame[p].on_closed

\* C19 as stated: when connect() calls overlap, at most one connection is
\* established, and the one established is the one the application holds.
C19_AtMostOneEstablished ==
  (closed = {} /\ \A p \in Procs : pc[p] # "create_pool") =>
    /\ created <= 1
    /\ created = 1 => redis = FirstPool + created

\* C19 as amended: every connect() that finds the application disconnected
\* establishes a connection of its own, also when another connect() is
\* suspended establishing one, and the application holds the connection
\* that was established last.
C19_HoldsLatest ==
  /\ redis > FirstPool => redis = FirstPool + created
  /\ (/\ done.op = "connect" /\ done.arg = NoHandle /\ ~done.pre_connected
      /\ done.res = "ok") =>
       Count(done.log, "pool_created") = 1
  /\ (done.op = "connect" /\ done.res = "ok") => redis # NoHandle

\* Two connect() calls that overlapped and each established a connection:
\* the application holds the second, the first is open and unreferenced.
C19_Witness ==
  /\ created = 2 /\ closed = {} /\ connected
  /\ before.op = "connect" /\ before.est = 1
  /\ done.op = "connect" /\ ~done.pre_connected
  /\ Count(done.log, "pool_created") = 1
  /\ redis = FirstPool + created

\* The add_cron_jobs calls whose arguments were all CronJobs referencing a
\* function that was registered when the call started.
BindOfRegistered ==
  /\ done.op = "add_cron_jobs"
  /\ ~done.pre_unregistered
  /\ \A i \in DOMAIN done.jobs : done.jobs[i] # NotCronJob

\* The wrapped entry point of the latest declaration of the function that
\* cron entry e came with.
LatestWrapper(e) == Wrapped(EntryFunc(e), decls[EntryFunc(e)])

\* C15: after a function has been declared twice, the lookup by the
\* original function yields the descriptor of the latest declaration, and
\* binding a cron entry that references the function succeeds and rebinds
\* the entry to that descriptor's wrapped entry point.
C15_RedeclareKeepsLookup ==
  /\ \A f \in Funcs : decls[f] >= 2 =>
       /\ Orig(f) \in DOMAIN by_original_coro
       /\ by_original_coro[Orig(f)].coroutine = Wrapped(f, decls[f])
  /\ \A f \in Funcs : \A n \in 1..MaxDecls :
       Wrapped(f, n) \notin DOMAIN by_original_coro
  /\ (/\ BindOfRegistered /\ Len(done.jobs) = 1
      /\ decls[EntryFunc(done.jobs[1])] >= 2) =>
       /\ done.res = "ok"
       /\ coroutine[done.jobs[1]] = LatestWrapper(done.jobs[1])

\* A cron entry bound after its function was declared twice.
C15_Witness ==
  /\ BindOfRegistered /\ Len(done.jobs) = 1
  /\ decls[EntryFunc(done.jobs[1])] = 2
  /\ before.op = "other"
  /\ done.res = "ok"

\* C16 as stated: a bind call whose entries all reference a registered
\* function rebinds each entry to the wrapped entry point of its descriptor
\* and appends the entries, in the order supplied, to the cron list.
C16_BindAppends ==
  BindOfRegistered =>
    /\ done.res = "ok"
    /\ cron_jobs = done.pre_cron \o done.jobs
    /\ \A i \in DOMAIN done.jobs :
         coroutine[done.jobs[i]] = LatestWrapper(done.jobs[i])

\* Are the arguments of the finished call pairwise distinct objects?
DistinctJobs ==
  \A i, j \in DOMAIN done.jobs : i # j => done.jobs[i] # done.jobs[j]

\* C16 as amended: the same, for a bind call whose entries are pairwise
\* distinct objects.
C16_BindAppendsDistinct ==
  (BindOfRegistered /\ DistinctJobs) =>
    /\ done.res = "ok"
    /\ cron_jobs = done.pre_cron \o done.jobs
    /\ \A i \in DOMAIN done.jobs :
         coroutine[done.jobs[i]] = LatestWrapper(done.jobs[i])

\* A bind call of two distinct entries, both of registered functions.
C16_Witness ==
  /\ BindOfRegistered /\ DistinctJobs
  /\ Len(done.jobs) = 2
  /\ done.res = "ok"

\* C20: every entry of the cron list references a wrapped entry point made
\* by a declaration, no entry occurs in the list twice, and binding an entry
\* that is already in the list fails as not registered.
C20_CronListWrapped ==
  /\ \A i \in DOMAIN cron_jobs :
       LET c == coroutine[cron_jobs[i]]
       IN c.wrapped /\ c.decl \in 1..decls[c.fn]
  /\ \A i, j \in DOMAIN cron_jobs : i # j => cron_jobs[i] # cron_jobs[j]
  /\ (/\ done.op = "add_cron_jobs" /\ Len(done.jobs) >= 1
      /\ \E i \in DOMAIN done.pre_cron : done.pre_cron[i] = done.jobs[1]) =>
       /\ done.res = "DarqException: is not registered"
       /\ cron_jobs = done.pre_cron

\* A bind call that was handed an entry already in the cron list.
C20_Witness ==
  /\ done.op = "add_cron_jobs" /\ Len(done.jobs) >= 1
  /\ \E i \in DOMAIN done.pre_cron : done.pre_cron[i] = done.jobs[1]
  /\ done.res = "DarqException: is not registered"
  /\ Len(cron_jobs) = 2

====
